---- MODULE Spec2Model ----
(***************************************************************************)
(* D-Rats map widget (d_rats/map/mapwidget.py): the viewport state of      *)
(* MapWidget and its coordinate transforms.                                *)
(*                                                                         *)
(* Python's float arithmetic is modelled by exact rational arithmetic: a   *)
(* number is a pair <<n, d>> in lowest terms with d > 0.  A division by    *)
(* zero is the Python exception ZeroDivisionError.                         *)
(* The tile collaborator (Map.Tile), Map.Position.distance and the draw    *)
(* handler (Map.Draw) are not part of mapwidget.py; they are modelled from *)
(* the specification's description of them.                                *)
(***************************************************************************)
EXTENDS Integers, Sequences, FiniteSets, TLC

\* ------------------------------------------------------------ bounds

\* The widget is constructed with width and height in 1..MaxTiles tiles.
MaxTiles == 3

\* ------------------------------------------------- rational arithmetic

Abs(n) == IF n < 0 THEN -n ELSE n

RECURSIVE GCD(_, _)
GCD(a, b) == IF b = 0 THEN a ELSE GCD(b, a % b)

\* n/d in lowest terms with a positive denominator (d # 0).
Norm(n, d) ==
    LET s == IF d < 0 THEN -1 ELSE 1
        g == GCD(Abs(n), Abs(d))
    IN  <<(s * n) \div g, (s * d) \div g>>

R(i) == <<i, 1>>
RAdd(a, b) == Norm(a[1] * b[2] + b[1] * a[2], a[2] * b[2])
RSub(a, b) == Norm(a[1] * b[2] - b[1] * a[2], a[2] * b[2])
RMul(a, b) == Norm(a[1] * b[1], a[2] * b[2])
\* a / b for b # 0; the callers raise ZeroDivisionError when b = 0.
RDiv(a, b) == Norm(a[1] * b[2], a[2] * b[1])
RLt(a, b) == a[1] * b[2] < b[1] * a[2]
RLe(a, b) == a[1] * b[2] <= b[1] * a[2]
RAbs(a) == <<Abs(a[1]), a[2]>>
IsZero(a) == a[1] = 0

\* --------------------------------------------------- class constants

LAT_MAX == 90
LON_MAX == 180

\* Map.Tile.get_tilesize(): the fixed size of a tile in pixels.
tilesize == 256
\* self.pixels = self.tilesize / 2, the width of the scale ladder.
pixels == RDiv(R(tilesize), R(2))

\* ------------------------------------------------ positions and tiles

None == [none |-> TRUE]

\* Map.Position(latitude, longitude)
Position(lat, lon) == [latitude |-> lat, longitude |-> lon]
Pos(lat, lon) == Position(R(lat), R(lon))

\* The tile collaborator at one fixed zoom: NTiles x NTiles tiles, x counted
\* eastwards and y southwards.  The latitudes of the tile rows' edges, north
\* to south, are not equally spaced (a Mercator grid).
LatEdges == <<85, 79, 67, 41, 0, -41, -67, -79, -85>>
NTiles == Len(LatEdges) - 1
LonStep == (2 * LON_MAX) \div NTiles

Tile(x, y) == [x_tile |-> x, y_tile |-> y]
OnGrid(t) == t.x_tile \in 0..(NTiles - 1) /\ t.y_tile \in 0..(NTiles - 1)

\* Map.Tile(position=pos): the tile that holds pos.
TileOf(pos) ==
    LET lon == pos.longitude[1] \div pos.longitude[2]
        x   == (lon + LON_MAX) \div LonStep
        y   == CHOOSE j \in 0..(NTiles - 1) :
                   /\ RLe(pos.latitude, R(LatEdges[j + 1]))
                   /\ RLt(R(LatEdges[j + 2]), pos.latitude)
    IN  Tile(x, y)

\* Map.Tile(position=None): without a center there is no tile, and the
\* query fails with the "no center set" condition.
TileError(pos) == IF pos = None THEN "no center set" ELSE "none"

\* tile + (dx, dy)
TileAdd(t, dx, dy) == Tile(t.x_tile + dx, t.y_tile + dy)

\* tile.tile_edges() -> (south, west, north, east)
tile_edges(t) ==
    << R(LatEdges[t.y_tile + 2]),
       R(-LON_MAX + LonStep * t.x_tile),
       R(LatEdges[t.y_tile + 1]),
       R(-LON_MAX + LonStep * (t.x_tile + 1)) >>

\* position in tile
Contains(t, pos) ==
    LET e == tile_edges(t)
    IN  /\ RLe(e[1], pos.latitude)  /\ RLe(pos.latitude, e[3])
        /\ RLe(e[2], pos.longitude) /\ RLe(pos.longitude, e[4])

\* Map.Position.distance, for the scale: a metric on positions (the sum of
\* the absolute differences in degrees stands for the great-circle distance).
Distance(a, b) ==
    RAdd(RAbs(RSub(a.latitude, b.latitude)),
         RAbs(RSub(a.longitude, b.longitude)))

\* -------------------------------------------------------------- inputs

\* Centers handed to set_center; the first two lie in the same tile.
Centers == { Pos(20, 10), Pos(20, 30), Pos(-30, 60) }

\* A position far outside every viewport of the model.
FarAway == Pos(-80, -170)

\* Positions handed to latlon2xy.
QueryPositions == Centers \cup { Pos(30, 10), FarAway }

\* Positions handed to point_is_visible.
VisiblePositions == Centers \cup { FarAway }

\* Pixel points handed to xy2latlon.
PixelPoints == { <<R(0), R(0)>>, <<R(tilesize), R(tilesize)>> }

\* --------------------------------------------------------------- state

VARIABLES
    width, height,      \* self.width, self.height (tiles)
    position,           \* self.position: None or the center
    bounds,             \* self._lat_min, _lat_max, _lon_min, _lon_max
    fudge,              \* self._x_fudge, self._y_fudge
    map_tiles,          \* self.map_tiles
    bounds_for,         \* history: self.position at the last calculate_bounds
    last                \* history: the last call and what it returned

vars == <<width, height, position, bounds, fudge, map_tiles, bounds_for, last>>

\* ------------------------------------------------------ the transforms

\* latlon2xy with the fudge offsets left out (lines 193-194 dropped).
latlon2xy_NoFudge(b, f, w, h, pos) ==
    IF \/ IsZero(RSub(b.lat_max, b.lat_min))
       \/ IsZero(RSub(b.lon_max, b.lon_min))
    THEN [err |-> "ZeroDivisionError"]
    ELSE
      LET y0 == RSub(R(1),
                     RDiv(RSub(RAdd(pos.latitude, R(LAT_MAX)), b.lat_min),
                          RSub(b.lat_max, b.lat_min)))
          x0 == RSub(R(1),
                     RDiv(RSub(RAdd(pos.longitude, R(LON_MAX)), b.lon_min),
                          RSub(b.lon_max, b.lon_min)))
      IN  [err |-> "none",
           xy |-> <<RMul(x0, R(tilesize * w)), RMul(y0, R(tilesize * h))>>]

\* latlon2xy with the fractions not inverted (the "1 -" of lines 185 and
\* 187 dropped).
latlon2xy_NoInvert(b, f, w, h, pos) ==
    IF \/ IsZero(RSub(b.lat_max, b.lat_min))
       \/ IsZero(RSub(b.lon_max, b.lon_min))
    THEN [err |-> "ZeroDivisionError"]
    ELSE
      LET y0 == RDiv(RSub(RAdd(pos.latitude, R(LAT_MAX)), b.lat_min),
                     RSub(b.lat_max, b.lat_min))
          x0 == RDiv(RSub(RAdd(pos.longitude, R(LON_MAX)), b.lon_min),
                     RSub(b.lon_max, b.lon_min))
          x1 == RMul(x0, R(tilesize * w))
          y1 == RMul(y0, R(tilesize * h))
      IN  [err |-> "none", xy |-> <<RAdd(x1, f.x), RAdd(y1, f.y)>>]

\* latlon2xy(pos) on bounds b and fudge f, in a w x h viewport.
latlon2xy(b, f, w, h, pos) ==
    IF \/ IsZero(RSub(b.lat_max, b.lat_min))
       \/ IsZero(RSub(b.lon_max, b.lon_min))
    THEN [err |-> "ZeroDivisionError"]
    ELSE
      LET y0 == RSub(R(1),
                     RDiv(RSub(RAdd(pos.latitude, R(LAT_MAX)), b.lat_min),
                          RSub(b.lat_max, b.lat_min)))
          x0 == RSub(R(1),
                     RDiv(RSub(RAdd(pos.longitude, R(LON_MAX)), b.lon_min),
                          RSub(b.lon_max, b.lon_min)))
          x1 == RMul(x0, R(tilesize * w))
          y1 == RMul(y0, R(tilesize * h))
      IN  [err |-> "none", xy |-> <<RAdd(x1, f.x), RAdd(y1, f.y)>>]

\* xy2latlon denormalizing the latitude with LON_MAX (line 294 using the
\* other constant).
xy2latlon_WrongConstant(b, f, w, h, xy) ==
    LET y_map == RSub(xy[2], f.y)
        x_map == RSub(xy[1], f.x)
        lon0  == RSub(R(1), RDiv(x_map, R(tilesize * w)))
        lat0  == RSub(R(1), RDiv(y_map, R(tilesize * h)))
        lat   == RSub(RAdd(RMul(lat0, RSub(b.lat_max, b.lat_min)), b.lat_min),
                      R(LON_MAX))
        lon   == RSub(RAdd(RMul(lon0, RSub(b.lon_max, b.lon_min)), b.lon_min),
                      R(LON_MAX))
    IN  Position(lat, lon)

\* xy2latlon(x_map, y_map) on bounds b and fudge f, in a w x h viewport.
\* Its only divisors are tilesize * width and tilesize * height, which are
\* positive: it raises nothing.
xy2latlon(b, f, w, h, xy) ==
    LET y_map == RSub(xy[2], f.y)
        x_map == RSub(xy[1], f.x)
        lon0  == RSub(R(1), RDiv(x_map, R(tilesize * w)))
        lat0  == RSub(R(1), RDiv(y_map, R(tilesize * h)))
        lat   == RSub(RAdd(RMul(lat0, RSub(b.lat_max, b.lat_min)), b.lat_min),
                      R(LAT_MAX))
        lon   == RSub(RAdd(RMul(lon0, RSub(b.lon_max, b.lon_min)), b.lon_min),
                      R(LON_MAX))
    IN  Position(lat, lon)

\* calculate_bounds taking the bottom-right tile's west edge as lon_min and
\* the top-left tile's east edge as lon_max.
BoundsOf_WestIsMin(center, w, h) ==
    LET delta_h  == h \div 2
        delta_w  == w \div 2
        topleft  == TileAdd(center, -delta_w, -delta_h)
        botright == TileAdd(center, delta_w, delta_h)
        br       == tile_edges(botright)
        tl       == tile_edges(topleft)
    IN  [ lat_min |-> RAdd(br[1], R(LAT_MAX)),
          lat_max |-> RAdd(tl[3], R(LAT_MAX)),
          lon_min |-> RAdd(br[2], R(LON_MAX)),
          lon_max |-> RAdd(tl[4], R(LON_MAX)) ]

\* calculate_bounds, lines 109-120: the normalized bounding box around the
\* center tile.
BoundsOf(center, w, h) ==
    LET delta_h  == h \div 2
        delta_w  == w \div 2
        topleft  == TileAdd(center, -delta_w, -delta_h)
        botright == TileAdd(center, delta_w, delta_h)
        br       == tile_edges(botright)
        tl       == tile_edges(topleft)
    IN  [ lat_min |-> RAdd(br[1], R(LAT_MAX)),
          lat_max |-> RAdd(tl[3], R(LAT_MAX)),
          lon_min |-> RAdd(br[4], R(LON_MAX)),
          lon_max |-> RAdd(tl[2], R(LON_MAX)) ]

ZeroFudge == [x |-> R(0), y |-> R(0)]

\* calculate_bounds, lines 137-145: the fudge offsets, from latlon2xy with
\* the fudge the widget holds at that point (f0, reset to zero by the caller).
FudgeOf(b, f0, center, w, h) ==
    LET e  == tile_edges(center)
        r  == latlon2xy(b, f0, w, h, Position(e[3], e[2]))
    IN  IF r.err # "none"
        THEN [err |-> r.err, fudge |-> f0]
        ELSE [err |-> "none",
              fudge |-> [x |-> RSub(R((w \div 2) * tilesize), r.xy[1]),
                         y |-> RSub(R((h \div 2) * tilesize), r.xy[2])]]

\* calculate_bounds without the reset of lines 137-138.
ResetFudge_Keep(f) == f

\* The fudge calculate_bounds starts latlon2xy with: lines 137-138 reset it.
ResetFudge(f) == ZeroFudge

\* The scan returning after the first tile, whether it holds pos or not.
ScanTiles_FirstOnly(tiles, i, pos) ==
    IF i > Len(tiles) THEN FALSE ELSE Contains(tiles[i], pos)

\* point_is_visible: the linear scan of map_tiles from index i on.
RECURSIVE ScanTiles(_, _, _)
ScanTiles(tiles, i, pos) ==
    IF i > Len(tiles) THEN FALSE
    ELSE IF Contains(tiles[i], pos) THEN TRUE
    ELSE ScanTiles(tiles, i + 1, pos)

point_is_visible(tiles, point) ==
    ScanTiles(tiles, 1, Position(point.latitude, point.longitude))

\* map_scale_pango_layout: the value handed to value_with_units.
ScaleDistance(b, f, w, h) ==
    LET pos_a == xy2latlon(b, f, w, h, <<R(tilesize), R(tilesize)>>)
        pos_b == xy2latlon(b, f, w, h, <<R(tilesize * 2), R(tilesize)>>)
    IN  RMul(Distance(pos_a, pos_b), RDiv(pixels, R(tilesize)))

\* The tiles the draw handler displays: width x height tiles from the
\* top-left corner tile, row by row.
RECURSIVE TileRows(_, _, _, _)
TileRows(topleft, w, h, k) ==
    IF k >= w * h THEN <<>>
    ELSE <<TileAdd(topleft, k % w, k \div w)>> \o TileRows(topleft, w, h, k + 1)

DisplayedTiles(center, w, h) ==
    TileRows(TileAdd(center, -(w \div 2), -(h \div 2)), w, h, 0)

\* ------------------------------------------------------------- actions

Init ==
    /\ width \in 1..MaxTiles
    /\ height \in 1..MaxTiles
    /\ position = None
    /\ bounds = [lat_min |-> R(0), lat_max |-> R(0),
                 lon_min |-> R(0), lon_max |-> R(0)]
    /\ fudge = ZeroFudge
    /\ map_tiles = <<>>
    /\ bounds_for = None
    /\ last = [op |-> "init"]

\* The corner tiles of the viewport around pos are tiles of the grid.
CornersOnGrid(pos, w, h) ==
    /\ OnGrid(TileAdd(TileOf(pos), -(w \div 2), -(h \div 2)))
    /\ OnGrid(TileAdd(TileOf(pos), w \div 2, h \div 2))

\* set_center stores the position and queues a redraw; it recomputes nothing.
set_center(p) ==
    /\ CornersOnGrid(p, width, height)
    /\ position' = p
    /\ last' = [op |-> "set_center"]
    /\ UNCHANGED <<width, height, bounds, fudge, map_tiles, bounds_for>>

\* The state calculate_bounds leaves: bounds, fudge and the error raised.
CalculateBoundsResult(pos, f, w, h) ==
    LET center == TileOf(pos)
        b      == BoundsOf(center, w, h)
        r      == FudgeOf(b, ResetFudge(f), center, w, h)
    IN  [bounds |-> b, fudge |-> r.fudge, err |-> r.err]

calculate_bounds ==
    IF TileError(position) # "none"
    THEN /\ last' = [op |-> "calculate_bounds", err |-> TileError(position)]
         /\ UNCHANGED <<width, height, position, bounds, fudge, map_tiles,
                        bounds_for>>
    ELSE LET r == CalculateBoundsResult(position, fudge, width, height)
         IN  /\ bounds' = r.bounds
             /\ fudge' = r.fudge
             /\ bounds_for' = position
             /\ last' = [op |-> "calculate_bounds", err |-> r.err,
                         before |-> [bounds |-> bounds, fudge |-> fudge,
                                     bounds_for |-> bounds_for]]
             /\ UNCHANGED <<width, height, position, map_tiles>>

\* The draw handler, run by the toolkit after queue_draw: recomputes the
\* bounds and loads the displayed tiles.
draw ==
    /\ TileError(position) = "none"
    /\ LET r == CalculateBoundsResult(position, fudge, width, height)
       IN  /\ bounds' = r.bounds
           /\ fudge' = r.fudge
    /\ bounds_for' = position
    /\ map_tiles' = DisplayedTiles(TileOf(position), width, height)
    /\ last' = [op |-> "draw"]
    /\ UNCHANGED <<width, height, position>>

call_latlon2xy(p) ==
    /\ LET r == latlon2xy(bounds, fudge, width, height, p)
       IN  last' = IF r.err = "none"
                   THEN [op |-> "latlon2xy", pos |-> p, err |-> "none",
                         xy |-> r.xy]
                   ELSE [op |-> "latlon2xy", pos |-> p, err |-> r.err]
    /\ UNCHANGED <<width, height, position, bounds, fudge, map_tiles,
                   bounds_for>>

\* xy2latlon on a pixel point; of is the position whose latlon2xy result
\* the point is, when the call follows that latlon2xy call.
call_xy2latlon(xy, of) ==
    /\ last' = [op |-> "xy2latlon", xy |-> xy, err |-> "none", of |-> of,
                out |-> xy2latlon(bounds, fudge, width, height, xy)]
    /\ UNCHANGED <<width, height, position, bounds, fudge, map_tiles,
                   bounds_for>>

call_point_is_visible(p) ==
    /\ last' = [op |-> "point_is_visible", pos |-> p,
                ret |-> point_is_visible(map_tiles, p)]
    /\ UNCHANGED <<width, height, position, bounds, fudge, map_tiles,
                   bounds_for>>

map_scale_pango_layout ==
    /\ last' = [op |-> "map_scale_pango_layout",
                dist |-> ScaleDistance(bounds, fudge, width, height)]
    /\ UNCHANGED <<width, height, position, bounds, fudge, map_tiles,
                   bounds_for>>

Next ==
    \/ \E p \in Centers : set_center(p)
    \/ calculate_bounds
    \/ draw
    \/ \E p \in QueryPositions : call_latlon2xy(p)
    \/ \E xy \in PixelPoints : call_xy2latlon(xy, None)
    \/ /\ last.op = "latlon2xy"
       /\ last.err = "none"
       /\ call_xy2latlon(last.xy, last.pos)
    \/ \E p \in VisiblePositions : call_point_is_visible(p)
    \/ map_scale_pango_layout

Spec == Init /\ [][Next]_vars

\* ---------------------------------------------------------- properties

IsQuery == last.op \in {"latlon2xy", "xy2latlon"}

\* calculate_bounds has run for the center the widget holds now.
BoundsCurrent == position # None /\ bounds_for = position

Degenerate ==
    \/ IsZero(RSub(bounds.lat_max, bounds.lat_min))
    \/ IsZero(RSub(bounds.lon_max, bounds.lon_min))

Between(v, a, b) == (RLe(a, v) /\ RLe(v, b)) \/ (RLe(b, v) /\ RLe(v, a))

\* pos lies in the stored bounding box.
InBounds(pos) ==
    /\ Between(RAdd(pos.latitude, R(LAT_MAX)), bounds.lat_min, bounds.lat_max)
    /\ Between(RAdd(pos.longitude, R(LON_MAX)), bounds.lon_min, bounds.lon_max)

\* latlon2xy of pos in the current state.
XY(pos) == latlon2xy(bounds, fudge, width, height, pos).xy

\* The edges (south, west, north, east) of the tile of the current center.
CenterEdges == tile_edges(TileOf(position))

Anchor == <<R((width \div 2) * tilesize), R((height \div 2) * tilesize)>>

\* C1: round trip.  With bounds computed by calculate_bounds and not
\* degenerate, xy2latlon applied to the result of latlon2xy(P) returns P, for
\* every in-bounds P, viewport size and fudge (exactly, in exact arithmetic).
C1_RoundTrip ==
    ( /\ last.op = "xy2latlon"
      /\ last.of # None
      /\ bounds_for # None
      /\ ~Degenerate
      /\ InBounds(last.of) )
    => last.out = last.of

C1_Witness ==
    /\ last.op = "xy2latlon"
    /\ last.of # None
    /\ bounds_for # None
    /\ ~Degenerate
    /\ InBounds(last.of)
    /\ ~IsZero(fudge.x)
    /\ ~IsZero(fudge.y)
    /\ last.out = last.of

\* C2 as claimed: after set_center(center) and calculate_bounds(),
\* latlon2xy(center) is the viewport's pixel center,
\* (width/2 * tilesize, height/2 * tilesize).
C2_CenterIsPixelCenter ==
    ( /\ last.op = "latlon2xy"
      /\ last.err = "none"
      /\ BoundsCurrent
      /\ last.pos = position )
    => last.xy = << RDiv(R(width * tilesize), R(2)),
                    RDiv(R(height * tilesize), R(2)) >>

\* C2 as amended: after set_center(center) and calculate_bounds(),
\* latlon2xy(center) is the pixel anchor of the center tile's north-west
\* corner, (floor(width/2) * tilesize, floor(height/2) * tilesize), displaced
\* by the center's offset from that corner at the viewport's linear scale.
C2_CenterOffsetFromAnchor ==
    ( /\ last.op = "latlon2xy"
      /\ last.err = "none"
      /\ BoundsCurrent
      /\ last.pos = position )
    => /\ last.xy[1] =
            RAdd(Anchor[1],
                 RDiv(RMul(RSub(position.longitude, CenterEdges[2]),
                           R(tilesize * width)),
                      RSub(bounds.lon_min, bounds.lon_max)))
       /\ last.xy[2] =
            RAdd(Anchor[2],
                 RDiv(RMul(RSub(CenterEdges[3], position.latitude),
                           R(tilesize * height)),
                      RSub(bounds.lat_max, bounds.lat_min)))

C2_Witness ==
    /\ last.op = "latlon2xy"
    /\ last.err = "none"
    /\ BoundsCurrent
    /\ last.pos = position
    /\ ~IsZero(fudge.y)
    /\ last.xy # << RDiv(R(width * tilesize), R(2)),
                    RDiv(R(height * tilesize), R(2)) >>

\* C3 as claimed: after calculate_bounds(), of two in-bounds positions that
\* differ only in longitude the one with the larger longitude has the smaller
\* x, and of two that differ only in latitude the one with the larger
\* latitude has the smaller y.
C3_LargerLongitudeSmallerX ==
    ( /\ last.op = "latlon2xy"
      /\ last.err = "none"
      /\ bounds_for # None
      /\ InBounds(last.pos) )
    => \A q \in QueryPositions :
         InBounds(q) =>
           /\ ( /\ q.latitude = last.pos.latitude
                /\ RLt(last.pos.longitude, q.longitude) )
              => RLt(XY(q)[1], last.xy[1])
           /\ ( /\ q.longitude = last.pos.longitude
                /\ RLt(last.pos.latitude, q.latitude) )
              => RLt(XY(q)[2], last.xy[2])

\* C3 as amended: after calculate_bounds(), of two in-bounds positions that
\* differ only in longitude the one with the larger longitude has the LARGER
\* x, and of two that differ only in latitude the one with the larger
\* latitude has the smaller y.
C3_LargerLongitudeLargerX ==
    ( /\ last.op = "latlon2xy"
      /\ last.err = "none"
      /\ bounds_for # None
      /\ InBounds(last.pos) )
    => \A q \in QueryPositions :
         InBounds(q) =>
           /\ ( /\ q.latitude = last.pos.latitude
                /\ RLt(last.pos.longitude, q.longitude) )
              => RLt(last.xy[1], XY(q)[1])
           /\ ( /\ q.longitude = last.pos.longitude
                /\ RLt(last.pos.latitude, q.latitude) )
              => RLt(XY(q)[2], last.xy[2])

C3_Witness ==
    /\ last.op = "latlon2xy"
    /\ last.err = "none"
    /\ bounds_for # None
    /\ InBounds(last.pos)
    /\ \E q \in QueryPositions :
         /\ InBounds(q)
         /\ q.latitude = last.pos.latitude
         /\ RLt(last.pos.longitude, q.longitude)
         /\ RLt(last.xy[1], XY(q)[1])
    /\ \E q \in QueryPositions :
         /\ InBounds(q)
         /\ q.longitude = last.pos.longitude
         /\ RLt(last.pos.latitude, q.latitude)
         /\ RLt(XY(q)[2], last.xy[2])

CalculatedOk == last.op = "calculate_bounds" /\ last.err = "none"

TopLeft == TileAdd(TileOf(position), -(width \div 2), -(height \div 2))
BotRight == TileAdd(TileOf(position), width \div 2, height \div 2)

NonNegativeBounds ==
    /\ RLe(R(0), bounds.lat_min) /\ RLe(R(0), bounds.lat_max)
    /\ RLe(R(0), bounds.lon_min) /\ RLe(R(0), bounds.lon_max)

\* C4 as claimed: after calculate_bounds() on a set center, _lat_max >
\* _lat_min and _lon_max > _lon_min, all four values are non-negative, and
\* lon_min is the bottom-right tile's west edge + 180, lon_max the top-left
\* tile's east edge + 180.
C4_MaxAboveMin ==
    CalculatedOk =>
       /\ RLt(bounds.lat_min, bounds.lat_max)
       /\ RLt(bounds.lon_min, bounds.lon_max)
       /\ NonNegativeBounds
       /\ bounds.lat_min = RAdd(tile_edges(BotRight)[1], R(LAT_MAX))
       /\ bounds.lon_min = RAdd(tile_edges(BotRight)[2], R(LON_MAX))
       /\ bounds.lat_max = RAdd(tile_edges(TopLeft)[3], R(LAT_MAX))
       /\ bounds.lon_max = RAdd(tile_edges(TopLeft)[4], R(LON_MAX))

\* C4 as amended: after calculate_bounds() on a set center, _lat_max >
\* _lat_min and _lon_max < _lon_min, all four values are non-negative;
\* lat_min is the bottom-right tile's south edge + 90, lon_min its EAST edge
\* + 180, lat_max the top-left tile's north edge + 90, lon_max its WEST edge
\* + 180.
C4_LonMaxBelowLonMin ==
    CalculatedOk =>
       /\ RLt(bounds.lat_min, bounds.lat_max)
       /\ RLt(bounds.lon_max, bounds.lon_min)
       /\ NonNegativeBounds
       /\ bounds.lat_min = RAdd(tile_edges(BotRight)[1], R(LAT_MAX))
       /\ bounds.lon_min = RAdd(tile_edges(BotRight)[4], R(LON_MAX))
       /\ bounds.lat_max = RAdd(tile_edges(TopLeft)[3], R(LAT_MAX))
       /\ bounds.lon_max = RAdd(tile_edges(TopLeft)[2], R(LON_MAX))

C4_Witness ==
    /\ CalculatedOk
    /\ width > 1
    /\ RLt(bounds.lon_max, bounds.lon_min)
    /\ RLt(tile_edges(TopLeft)[2], tile_edges(TopLeft)[4])

\* C5: whenever the bounds are degenerate (_lat_max = _lat_min or _lon_max =
\* _lon_min), latlon2xy and xy2latlon signal a distinct, defined computation
\* error: no division by zero, no ordinary-looking result.
C5_DegenerateSignalled ==
    (IsQuery /\ Degenerate) => last.err = "degenerate bounds"

\* C6: while the position is None, latlon2xy, xy2latlon and calculate_bounds
\* fail with a "no center set" condition and compute nothing from the stored
\* bounds and fudge.
C6_NoCenterSignalled ==
    ( /\ position = None
      /\ last.op \in {"latlon2xy", "xy2latlon", "calculate_bounds"} )
    => last.err = "no center set"

\* C7: every latlon2xy/xy2latlon query is answered from the bounds and fudge
\* offsets of the widget's current center, never from those computed for a
\* previous center.
C7_QueriesUseCurrentBounds ==
    ( /\ IsQuery
      /\ last.err = "none"
      /\ position # None
      /\ bounds_for # None )
    => LET r == CalculateBoundsResult(position, fudge, width, height)
       IN  bounds = r.bounds /\ fudge = r.fudge

InSomeTile(pos) == \E i \in DOMAIN map_tiles : Contains(map_tiles[i], pos)

\* C8 as claimed: after set_center(center) and calculate_bounds(),
\* point_is_visible(center) returns true.
C8_CenterVisibleAfterBounds ==
    ( /\ last.op = "point_is_visible"
      /\ BoundsCurrent
      /\ last.pos = position )
    => last.ret = TRUE

\* C8 as amended: point_is_visible(point) is true iff the point's position is
\* contained in at least one tile of map_tiles; in particular it is false,
\* also for the center after calculate_bounds(), while map_tiles is empty.
C8_VisibleIffInSomeTile ==
    last.op = "point_is_visible" =>
       /\ last.ret = InSomeTile(last.pos)
       /\ (map_tiles = <<>> => last.ret = FALSE)

C8_Witness ==
    /\ last.op = "point_is_visible"
    /\ Len(map_tiles) > 1
    /\ ~Contains(map_tiles[1], last.pos)
    /\ last.ret = TRUE

\* C9: fudge anchoring.  After every calculate_bounds(), whatever the fudge
\* was before and however often it is repeated, latlon2xy of the center
\* tile's north-west corner is exactly (floor(width/2) * tilesize,
\* floor(height/2) * tilesize), and a repeated calculate_bounds() for the
\* same center leaves bounds and fudge unchanged.
C9_FudgeAnchoring ==
    CalculatedOk =>
       /\ XY(Position(CenterEdges[3], CenterEdges[2])) = Anchor
       /\ last.before.bounds_for = position =>
             /\ last.before.bounds = bounds
             /\ last.before.fudge = fudge

C9_Witness ==
    /\ CalculatedOk
    /\ last.before.bounds_for = position
    /\ ~IsZero(last.before.fudge.x)
    /\ ~IsZero(last.before.fudge.y)
    /\ XY(Position(CenterEdges[3], CenterEdges[2])) = Anchor

\* C10: the distance map_scale_pango_layout hands to value_with_units is the
\* distance between xy2latlon(tilesize, tilesize) and
\* xy2latlon(2*tilesize, tilesize): the ground distance of one tile width.
C10_ScaleIsOneTileWidth ==
    last.op = "map_scale_pango_layout" =>
       last.dist =
         Distance(xy2latlon(bounds, fudge, width, height,
                            <<R(tilesize), R(tilesize)>>),
                  xy2latlon(bounds, fudge, width, height,
                            <<R(2 * tilesize), R(tilesize)>>))

====
